---- MODULE Spec2Model ----
(***************************************************************************)
(* Dog Breed Selector: the RAG pipeline (rag_module.py), its module-level  *)
(* instance cache, the Streamlit session handlers (streamlit_app.py) and   *)
(* the scraper (scrapper.py): a run of scrape_dog_breeds_rkc() page by     *)
(* page, and its save step; test_integration.py, which runs the scraper,   *)
(* saves and builds the pipeline; and get_rag_pipeline entered by several  *)
(* threads of the process.                                                 *)
(*                                                                         *)
(* Strings that the code inspects character by character (the API key) are *)
(* sequences of one-character strings; urls and hrefs, which the code      *)
(* searches for "/breed/" and the like, are sequences of the pieces        *)
(* between their slashes; strings that are only carried around or measured *)
(* (titles, contents, paragraphs) are TLA+ strings.                        *)
(***************************************************************************)
EXTENDS Integers, Sequences, FiniteSets, TLC

VARIABLES
    environ,                    \* os.environ["OPENAI_API_KEY"], or Unset
    data_file,                  \* the file dog_breeds_rkc.json on disk
    heap,                       \* every DogBreedRAG object constructed so far
    _rag_instance,              \* rag_module._rag_instance (0 is None)
    _rag_instance_use_scraped,  \* rag_module._rag_instance_use_scraped
    session_state,              \* st.session_state of the one browser session
    cleared_at,                 \* Len(heap) when the session cache was last cleared
    last,                       \* what the last operation did (observation only)
    web,                        \* the site a scrape run reads, page by page
    scraper,                    \* one run of scrape_dog_breeds_rkc()
    threads                     \* each thread's place in get_rag_pipeline

vars ==
    <<environ, data_file, heap, _rag_instance, _rag_instance_use_scraped,
      session_state, cleared_at, last, web, scraper, threads>>

----------------------------------------------------------------------------
(* Bounds *)

MaxInstances == 2

MaxFileLen == 1

MaxStoreLen == 3

MaxTopK == 3

----------------------------------------------------------------------------
(* Python values *)

None == "None"

NoInstance == 0

Flag(b) == IF b THEN "True" ELSE "False"

Unset == <<"<unset>">>

YourKey == <<"y", "o", "u", "r", "-", "k", "e", "y">>

RealKey == <<"s", "k", "-", "p", "r", "o", "j", "-", "1">>

Whitespace == {" ", "\t", "\n"}

Take(s, n) == SubSeq(s, 1, IF Len(s) < n THEN Len(s) ELSE n)

RECURSIVE LStrip(_)
LStrip(s) ==
    IF s # <<>> /\ Head(s) \in Whitespace THEN LStrip(Tail(s)) ELSE s

RECURSIVE RStrip(_)
RStrip(s) ==
    IF s # <<>> /\ s[Len(s)] \in Whitespace
    THEN RStrip(SubSeq(s, 1, Len(s) - 1))
    ELSE s

Strip(s) == RStrip(LStrip(s))

Getenv(env, default) == IF env = Unset THEN default ELSE env

Get(item, key, default) == IF key \in DOMAIN item THEN item[key] ELSE default

----------------------------------------------------------------------------
(* DogBreedRAG.__init__: validation of OPENAI_API_KEY *)

RemediationLines ==
    << "OPENAI_API_KEY not set or invalid!",
       "To fix this:",
       "1. Get your API key from: https://platform.openai.com/account/api-keys",
       "2. Set it in your terminal:",
       "   export OPENAI_API_KEY='sk-proj-your-actual-key'",
       "3. Restart Streamlit:",
       "   streamlit run streamlit_app.py" >>

NoMessage == [text |-> <<>>, current_value |-> <<>>]

\* The argument of ValueError(...): the adjacent string literals are joined
\* first, so the conditional expression chooses between the whole joined
\* text and "Not set".
KeyErrorMessage(api_key) ==
    IF api_key # <<>>
    THEN [text |-> RemediationLines \o <<"Current value: ...">>,
          current_value |-> Take(api_key, 20)]
    ELSE [text |-> <<"Not set">>, current_value |-> <<>>]

\* Faulty variant of KeyRejected: the placeholder passes.
KeyRejectedPlaceholderAccepted(api_key) == api_key = <<>>

KeyRejected(api_key) == api_key = <<>> \/ api_key = YourKey

----------------------------------------------------------------------------
(* Documents and the data file *)

NoEmbedding == [model |-> None, vector |-> 0]

Document(content, meta) ==
    [content |-> content, meta |-> meta, embedding |-> NoEmbedding]

\* scrapper.py builds one Document per qualifying breed page.
ScrapedDocument(title, content, url) ==
    Document(content,
             [title |-> title, url |-> url, source |-> "Royal Kennel Club",
              related_pages_count |-> 0, related_pages |-> <<>>])

DocAkita == ScrapedDocument("Akita", "Akita: dignified, courageous.", "https://www.royalkennelclub.com/breed/akita")

DocBorzoi == ScrapedDocument("Borzoi", "Borzoi: gentle, athletic.", "https://www.royalkennelclub.com/breed/borzoi")

\* save_documents_to_json: one JSON object per Document.
ItemOf(doc) ==
    [title |-> Get(doc.meta, "title", "Unknown"),
     content |-> doc.content,
     url |-> Get(doc.meta, "url", ""),
     source |-> Get(doc.meta, "source", "Royal Kennel Club"),
     related_pages_count |-> Get(doc.meta, "related_pages_count", 0),
     related_pages |-> Get(doc.meta, "related_pages", <<>>)]

\* The data file: absent, present but not JSON, or a JSON array of objects.
Missing == [kind |-> "missing", data |-> <<>>]

NotJson == [kind |-> "text", data |-> <<>>]

JsonArray(items) == [kind |-> "json", data |-> items]

save_documents_to_json(documents) ==
    JsonArray([i \in 1..Len(documents) |-> ItemOf(documents[i])])

\* Objects a hand-written or foreign data file may hold.
ItemContentOnly == [content |-> "Corgi: lively herder."]

ItemNoContent == [title |-> "Pug", url |-> "https://example.org/pug"]

ItemPool == {ItemOf(DocAkita), ItemContentOnly, ItemNoContent}

SeqsUpTo(S, n) == UNION {[1..k -> S] : k \in 0..n}

DataFiles == {Missing, NotJson} \cup {JsonArray(s) : s \in SeqsUpTo(ItemPool, MaxFileLen)}

----------------------------------------------------------------------------
(* DogBreedRAG.__init__: loading the dataset *)

fallback_data ==
    << [title |-> "Labrador Retriever",
        content |-> "Friendly, outgoing, and high-energy.",
        source |-> "Built-in"],
       [title |-> "Golden Retriever",
        content |-> "Affectionate, patient, and eager to please.",
        source |-> "Built-in"],
       [title |-> "French Bulldog",
        content |-> "Compact, calm, and good for apartment living.",
        source |-> "Built-in"],
       [title |-> "Poodle (Standard)",
        content |-> "Highly intelligent and trainable.",
        source |-> "Built-in"],
       [title |-> "Beagle",
        content |-> "Curious, friendly, and social.",
        source |-> "Built-in"] >>

FallbackDocs ==
    [i \in 1..Len(fallback_data) |->
        Document(fallback_data[i].content,
                 [title |-> fallback_data[i].title,
                  source |-> fallback_data[i].source])]

\* Faulty variant of ScrapedDocs: the saved source label is not read.
ScrapedDocsSourceIgnored(data) ==
    [i \in 1..Len(data) |->
        Document(data[i].content,
                 [title |-> Get(data[i], "title", "Unknown"),
                  url |-> Get(data[i], "url", ""),
                  source |-> "Scraped"])]

ScrapedDocs(data) ==
    [i \in 1..Len(data) |->
        Document(data[i].content,
                 [title |-> Get(data[i], "title", "Unknown"),
                  url |-> Get(data[i], "url", ""),
                  source |-> Get(data[i], "source", "Scraped")])]

Loaded(docs, from_file, effects) ==
    [raised |-> "none", docs |-> docs, from_file |-> from_file, effects |-> effects]

LoadFailed(exception, effects) ==
    [raised |-> exception, docs |-> <<>>, from_file |-> FALSE, effects |-> effects]

\* Faulty variant of Exists: the file is taken to be there.
ExistsUnchecked(fl) == TRUE

\* os.path.exists("dog_breeds_rkc.json")
Exists(fl) == fl.kind # "missing"

\* STEP 2 and STEP 2B: the scraped file when asked for and present, the
\* built-in dataset otherwise.  Nothing here catches an exception.
LoadDataset(use_scraped_data, fl) ==
    IF use_scraped_data
    THEN IF Exists(fl)
         THEN IF fl.kind # "json"
              THEN LoadFailed("JSONDecodeError",
                              <<"os.path.exists", "open", "json.load">>)
              ELSE IF \E i \in 1..Len(fl.data) : "content" \notin DOMAIN fl.data[i]
                   THEN LoadFailed("KeyError",
                                   <<"os.path.exists", "open", "json.load">>)
                   ELSE Loaded(ScrapedDocs(fl.data), TRUE,
                               <<"os.path.exists", "open", "json.load">>)
         ELSE Loaded(FallbackDocs, FALSE, <<"os.path.exists">>)
    ELSE Loaded(FallbackDocs, FALSE, <<>>)

----------------------------------------------------------------------------
(* DogBreedRAG.__init__: embedding the documents and filling the store *)

EmbeddingModel == "sentence-transformers/all-MiniLM-L6-v2"

SearchQuestionHighEnergy ==
    "I'm looking for a dog with these characteristics: high energy. What breeds would be the best match for me?"

SearchQuestionCalm ==
    "I'm looking for a dog with these characteristics: calm. What breeds would be the best match for me?"

\* The sentence-transformers model named at lines 157 and 168: a
\* deterministic map from text to a vector.  One-dimensional integer vectors
\* stand for its output; several texts share a vector, so equal similarity
\* scores occur.
MiniLM(text) ==
    CASE text = "Akita: dignified, courageous." -> 2
      [] text = "Borzoi: gentle, athletic." -> 0 - 1
      [] text = "Corgi: lively herder." -> 2
      [] text = "Friendly, outgoing, and high-energy." -> 1
      [] text = "Affectionate, patient, and eager to please." -> 2
      [] text = "Compact, calm, and good for apartment living." -> 0 - 2
      [] text = "Highly intelligent and trainable." -> 0
      [] text = "Curious, friendly, and social." -> 1
      [] text = "active family dog" -> 1
      [] text = "calm apartment dog" -> 0 - 1
      [] text = SearchQuestionHighEnergy -> 1
      [] text = SearchQuestionCalm -> 0 - 1
      [] OTHER -> 0

\* A vector of another model lies in another space.
Encode(model, text) ==
    IF model = EmbeddingModel THEN MiniLM(text) ELSE 0 - MiniLM(text)

\* SentenceTransformersDocumentEmbedder(model=...).run(docs)["documents"]
DocEmbedderRun(model, docs) ==
    [i \in 1..Len(docs) |->
        [docs[i] EXCEPT !.embedding =
            [model |-> model, vector |-> Encode(model, docs[i].content)]]]

\* Document.id is a hash of the document's content and meta; the store's
\* default duplicate policy refuses a second document with an id it holds.
DocId(doc) == <<doc.content, doc.meta>>

HasDuplicateIds(docs) ==
    \E i, j \in 1..Len(docs) : i < j /\ DocId(docs[i]) = DocId(docs[j])

\* Faulty variant of DocumentsToWrite: the documents as loaded are written.
DocumentsToWriteUnembedded(docs, docs_with_embeddings) == docs

\* What __init__ hands to document_store.write_documents.
DocumentsToWrite(docs, docs_with_embeddings) == docs_with_embeddings

----------------------------------------------------------------------------
(* DogBreedRAG.__init__ as a whole *)

top_k_default == 10

NoObject ==
    [use_scraped_data |-> FALSE, document_store |-> <<>>,
     text_embedder |-> None, top_k |-> 0]

\* Faulty variant of TextEmbedderModel: the query embedder of another model.
TextEmbedderModelOther == "sentence-transformers/all-mpnet-base-v2"

\* line 168: SentenceTransformersTextEmbedder(model=...)
TextEmbedderModel == EmbeddingModel

Constructed(use_scraped_data, store, from_file, effects) ==
    [raised |-> "none", message |-> NoMessage, effects |-> effects,
     from_file |-> from_file,
     self |-> [use_scraped_data |-> use_scraped_data,
               document_store |-> store,
               text_embedder |-> TextEmbedderModel,
               top_k |-> top_k_default]]

Raised(exception, message, effects) ==
    [raised |-> exception, message |-> message, effects |-> effects,
     from_file |-> FALSE, self |-> NoObject]

\* What the world outside the process does to one call: whether the
\* embedding model can be loaded and run, whether the hosted LLM answers.
Externals == [embedder_ok : BOOLEAN, llm_ok : BOOLEAN]

DogBreedRAG(use_scraped_data, env, fl, ext) ==
    LET api_key == Strip(Getenv(env, <<>>)) IN
    IF KeyRejected(api_key)
    THEN Raised("ValueError", KeyErrorMessage(api_key), <<"os.getenv">>)
    ELSE
    LET load == LoadDataset(use_scraped_data, fl)
        sofar == <<"os.getenv", "InMemoryDocumentStore">> \o load.effects
    IN
    IF load.raised # "none"
    THEN Raised(load.raised, NoMessage, sofar)
    ELSE IF ~ext.embedder_ok
    THEN Raised("EmbedderError", NoMessage, sofar \o <<"warm_up">>)
    ELSE
    LET docs_with_embeddings == DocEmbedderRun(EmbeddingModel, load.docs)
        written == DocumentsToWrite(load.docs, docs_with_embeddings)
    IN
    IF HasDuplicateIds(written)
    THEN Raised("DuplicateDocumentError", NoMessage,
                sofar \o <<"warm_up", "embed", "write_documents">>)
    ELSE Constructed(use_scraped_data, written, load.from_file,
                     sofar \o <<"warm_up", "embed", "write_documents">>)

----------------------------------------------------------------------------
(* The four pipeline components run by answer_question *)

\* SentenceTransformersTextEmbedder.run(text)["embedding"]
TextEmbedderRun(model, text) == Encode(model, text)

\* dot product of the query vector and a document's vector
Score(query_embedding, doc) == query_embedding * doc.embedding.vector

\* Insert doc behind every entry that scores at least as high: the order
\* sorted(..., reverse=True) gives, equal scores keeping insertion order.
RECURSIVE InsertRanked(_, _, _)
InsertRanked(ranked, doc, q) ==
    IF ranked = <<>> THEN <<doc>>
    ELSE IF Score(q, Head(ranked)) >= Score(q, doc)
         THEN <<Head(ranked)>> \o InsertRanked(Tail(ranked), doc, q)
         ELSE <<doc>> \o ranked

RECURSIVE Ranked(_, _)
Ranked(docs, q) ==
    IF docs = <<>> THEN <<>>
    ELSE InsertRanked(Ranked(SubSeq(docs, 1, Len(docs) - 1), q), docs[Len(docs)], q)

\* InMemoryEmbeddingRetriever.run: the top_k best-scoring documents among
\* those of the store that carry an embedding; none when there are none.
Retrieve(store, query_embedding, top_k) ==
    LET documents_with_embeddings ==
            SelectSeq(store, LAMBDA d : d.embedding.model # None)
    IN  Take(Ranked(documents_with_embeddings, query_embedding), top_k)

TemplateHead ==
    << "You are a warm, friendly assistant that recommends dog breeds based on a user's lifestyle.",
       "TASK: Based on the breed information provided, answer the user's question.",
       "INSTRUCTIONS:",
       "BREED INFORMATION:" >>

\* Faulty variant of RenderDocument: the title is left out.
RenderDocumentNoTitle(document) == << "- ", document.content >>

\* One turn of the template's {% for document in documents %} loop.
RenderDocument(document) ==
    << "- ", document.meta["title"], ": ", document.content >>

RECURSIVE RenderDocuments(_)
RenderDocuments(documents) ==
    IF documents = <<>> THEN <<>>
    ELSE RenderDocument(Head(documents)) \o RenderDocuments(Tail(documents))

\* ChatPromptBuilder.run(documents, question): the rendered user message, as
\* the sequence of its literal and substituted pieces.
PromptBuilderRun(documents, question) ==
    TemplateHead \o RenderDocuments(documents)
        \o << "USER QUESTION: ", question, "RESPONSE:" >>

\* OpenAIChatGenerator.run(messages)["replies"][0].text
Reply(prompt) == "Here are the breeds I would recommend."

NoAnswer ==
    [raised |-> "none", stages |-> <<>>, question |-> "", query_embedding |-> 0,
     retriever_query |-> 0, top_k |-> 0, documents |-> <<>>,
     builder_documents |-> <<>>, prompt |-> <<>>, llm_messages |-> <<>>,
     llm_calls |-> 0, text |-> ""]

\* Faulty variant of Connections: the retriever's output goes nowhere.
ConnectionsRetrieverUnconnected ==
    { [sender |-> "text_embedder.embedding",
       receiver |-> "retriever.query_embedding"],
      [sender |-> "prompt_builder.prompt", receiver |-> "llm.messages"] }

\* pipeline.connect(sender, receiver), lines 228-230
Connections ==
    { [sender |-> "text_embedder.embedding",
       receiver |-> "retriever.query_embedding"],
      [sender |-> "retriever.documents",
       receiver |-> "prompt_builder.documents"],
      [sender |-> "prompt_builder.prompt", receiver |-> "llm.messages"] }

\* What an input socket receives: the output of the socket connected to it,
\* or the socket's default when nothing is connected.
Received(receiver, sender, output, default) ==
    IF [sender |-> sender, receiver |-> receiver] \in Connections
    THEN output
    ELSE default

\* pipeline.run over text_embedder -> retriever -> prompt_builder -> llm;
\* an exception of a component ends the run there.
PipelineRun(self, question, ext) ==
    IF ~ext.embedder_ok
    THEN [NoAnswer EXCEPT !.raised = "EmbedderError",
                          !.question = question,
                          !.stages = <<"text_embedder">>]
    ELSE
    LET q == TextEmbedderRun(self.text_embedder, question)
        retriever_query ==
            Received("retriever.query_embedding", "text_embedder.embedding", q, 0)
        documents == Retrieve(self.document_store, retriever_query, self.top_k)
        builder_documents ==
            Received("prompt_builder.documents", "retriever.documents",
                     documents, <<>>)
        prompt == PromptBuilderRun(builder_documents, question)
        llm_messages ==
            Received("llm.messages", "prompt_builder.prompt", prompt, <<>>)
        base == [NoAnswer EXCEPT !.question = question,
                                 !.query_embedding = q,
                                 !.retriever_query = retriever_query,
                                 !.top_k = self.top_k,
                                 !.documents = documents,
                                 !.builder_documents = builder_documents,
                                 !.prompt = prompt,
                                 !.llm_messages = llm_messages,
                                 !.llm_calls = 1,
                                 !.stages = <<"text_embedder", "retriever",
                                              "prompt_builder", "llm">>]
    IN  IF ext.llm_ok
        THEN [base EXCEPT !.text = Reply(llm_messages)]
        ELSE [base EXCEPT !.raised = "OpenAIError"]

\* Faulty variant of answer_question: an empty retrieval is an error.
answer_questionRejectsEmpty(self, question, ext) ==
    LET run == PipelineRun(self, question, ext) IN
    IF ext.embedder_ok /\ run.documents = <<>>
    THEN [NoAnswer EXCEPT !.raised = "ValueError", !.question = question,
                          !.query_embedding = run.query_embedding,
                          !.top_k = run.top_k,
                          !.stages = <<"text_embedder", "retriever">>]
    ELSE run

\* Faulty variant of answer_question: a failing run is caught and an empty
\* answer returned.
answer_questionSwallowsErrors(self, question, ext) ==
    [PipelineRun(self, question, ext) EXCEPT !.raised = "none"]

\* answer_question: run the pipeline on the question and return the reply's
\* text; nothing is caught.
answer_question(self, question, ext) == PipelineRun(self, question, ext)

\* Questions a caller of the module may ask.
Questions == {"active family dog", "calm apartment dog", "any dog"}

\* streamlit_app.py: the question built from the search box ...
SearchQuestion(characteristics) ==
    IF characteristics = "high energy"
    THEN SearchQuestionHighEnergy
    ELSE SearchQuestionCalm

\* ... and from the eleven quiz answers.
ProfileQuestion ==
    "Based on this person's profile, what dog breeds would be the best match?"

Characteristics == {"", "high energy", "calm"}

----------------------------------------------------------------------------
(* The module-level cache: get_rag_pipeline and reload_rag_pipeline *)

NoConstruction == Raised("none", NoMessage, <<>>)

\* Faulty variant of CacheMiss: the requested flag is not compared.
CacheMissIgnoresFlag(use_scraped_data) == _rag_instance = NoInstance

\* line 287: a new instance is needed
CacheMiss(use_scraped_data) ==
    \/ _rag_instance = NoInstance
    \/ _rag_instance_use_scraped # Flag(use_scraped_data)

\* Faulty variant of Rebuild: the cache is cleared before the constructor
\* runs, so an exception leaves it empty.
RebuildClearsFirst(use_scraped_data, ext) ==
    LET c == DogBreedRAG(use_scraped_data, environ, data_file, ext) IN
    IF c.raised # "none"
    THEN [constructed |-> TRUE, construction |-> c, raised |-> c.raised,
          returned |-> NoInstance, heap |-> heap,
          instance |-> NoInstance, flag |-> None]
    ELSE [constructed |-> TRUE, construction |-> c, raised |-> "none",
          returned |-> Len(heap) + 1, heap |-> Append(heap, c.self),
          instance |-> Len(heap) + 1, flag |-> Flag(use_scraped_data)]

\* _rag_instance = DogBreedRAG(...); _rag_instance_use_scraped = ...
\* An exception of the constructor leaves before either assignment.
Rebuild(use_scraped_data, ext) ==
    LET c == DogBreedRAG(use_scraped_data, environ, data_file, ext) IN
    IF c.raised # "none"
    THEN [constructed |-> TRUE, construction |-> c, raised |-> c.raised,
          returned |-> NoInstance, heap |-> heap,
          instance |-> _rag_instance, flag |-> _rag_instance_use_scraped]
    ELSE [constructed |-> TRUE, construction |-> c, raised |-> "none",
          returned |-> Len(heap) + 1, heap |-> Append(heap, c.self),
          instance |-> Len(heap) + 1, flag |-> Flag(use_scraped_data)]

Cached ==
    [constructed |-> FALSE, construction |-> NoConstruction, raised |-> "none",
     returned |-> _rag_instance, heap |-> heap,
     instance |-> _rag_instance, flag |-> _rag_instance_use_scraped]

get_rag_pipeline(use_scraped_data, ext) ==
    IF CacheMiss(use_scraped_data) THEN Rebuild(use_scraped_data, ext) ELSE Cached

\* Faulty variant of reload_rag_pipeline: the cache is consulted first.
reload_rag_pipelineUsesCache(use_scraped_data, ext) ==
    get_rag_pipeline(use_scraped_data, ext)

reload_rag_pipeline(use_scraped_data, ext) == Rebuild(use_scraped_data, ext)

----------------------------------------------------------------------------
(* scrapper.py: urls, hrefs and pages *)

\* A url or href is the sequence of the pieces between its slashes:
\* "/breed/akita" is <<"", "breed", "akita">>, the empty string is <<"">>.
Site == <<"https:", "", "www.royalkennelclub.com">>

base_url == Site \o <<"search", "breeds-a-to-z">>

\* str.lower() of one piece
Lower(piece) ==
    CASE piece = "Breeds" -> "breeds"
      [] piece = "BREED" -> "breed"
      [] OTHER -> piece

\* "/word/" in href.lower(): a piece with a slash on either side
InLowered(word, href) ==
    \E i \in 2..(Len(href) - 1) : Lower(href[i]) = word

\* Faulty variant of MatchesBreedPattern: the href is not lowered.
MatchesBreedPatternCaseSensitive(href) ==
    /\ href # <<"">>
    /\ \E i \in 2..(Len(href) - 1) : href[i] \in {"breed", "breeds", "dog-breeds"}

\* lines 164-168 and 179-182: the href matches one of the breed patterns
MatchesBreedPattern(href) ==
    /\ href # <<"">>
    /\ \E word \in {"breed", "breeds", "dog-breeds"} : InLowered(word, href)

\* href.startswith("http")
StartsWithHttp(href) == Head(href) \in {"http:", "https:"}

\* "https://www.royalkennelclub.com" + href, for an href that is not absolute
Absolute(href) ==
    IF StartsWithHttp(href) THEN href
    ELSE <<Site[1], Site[2], Site[3] \o Head(href)>> \o Tail(href)

\* "royalkennelclub.com" in href
OnSite(href) ==
    \E i \in 1..Len(href) :
        href[i] \in {"www.royalkennelclub.com", "www.royalkennelclub.comfaq"}

\* "#" in href
HasHash(href) ==
    \E i \in 1..Len(href) : href[i] \in {"akita#health", "#top"}

UrlAkita == Site \o <<"breed", "akita">>

UrlBorzoi == Site \o <<"Breeds", "borzoi">>

UrlCorgi == Site \o <<"dog-breeds", "corgi">>

UrlCare == Site \o <<"health", "akita-care">>

Link(href, text) == [href |-> href, text |-> text]

\* Texts of a wanted length: tag followed by dots.
RECURSIVE Dots(_)
Dots(n) ==
    IF n <= 0 THEN ""
    ELSE IF n % 2 = 1 THEN "." \o Dots(n - 1)
    ELSE LET half == Dots(n \div 2) IN half \o half

Text(tag, n) == tag \o Dots(n - Len(tag))

\* An element that may hold the page's body: the paragraphs and divs in it
\* whose class contains "text", all its <p>, and its <a href>, each in
\* document order and with script, style, nav, footer and header taken out;
\* texts are as get_text(strip=True) gives them.
NoContainer == [present |-> FALSE, texts |-> <<>>, ps |-> <<>>, links |-> <<>>]

Container(texts, ps, links) ==
    [present |-> TRUE, texts |-> texts, ps |-> ps, links |-> links]

\* What requests.get gives for a url: an exception, or a document with its
\* first <h1> (if any), its <main>, its <article>, its first div whose class
\* contains "content", "main" or "breed", the <p> and <a href> outside these,
\* and the divs whose class contains "breed" with the first link of each.
Unreachable ==
    [raises |-> TRUE, h1 |-> <<>>, main |-> NoContainer,
     article |-> NoContainer, div |-> NoContainer,
     loose_ps |-> <<>>, nav_links |-> <<>>, breed_items |-> <<>>]

Html(h1, main, article, div) ==
    [raises |-> FALSE, h1 |-> h1, main |-> main, article |-> article,
     div |-> div, loose_ps |-> <<>>, nav_links |-> <<>>, breed_items |-> <<>>]

\* soup.find_all("a", href=True)
AllLinks(page) ==
    page.nav_links \o page.main.links \o page.article.links \o page.div.links

----------------------------------------------------------------------------
(* scrapper.py: scrape_page *)

\* The breed and related-page limits of lines 220-221, which are 300 and 100
\* in the source, scaled down so that a listing of three links and a breed
\* page of three links exceed them.
max_breeds == 2

max_related == 2

\* lines 78-79
Title(page) == IF page.h1 = <<>> THEN "Unknown" ELSE page.h1[1]

\* lines 83-87: soup.find("main") or soup.find("article") or
\* soup.find("div", class_=...); NoContainer stands for None.
main_content(page) ==
    IF page.main.present THEN page.main
    ELSE IF page.article.present THEN page.article
    ELSE page.div

\* lines 95-101
Paragraphs(container) ==
    IF container.texts # <<>> THEN container.texts ELSE container.ps

RECURSIVE Join(_, _)
Join(sep, parts) ==
    IF parts = <<>> THEN ""
    ELSE IF Len(parts) = 1 THEN parts[1]
    ELSE parts[1] \o sep \o Join(sep, Tail(parts))

\* lines 104-110
ContentText(container) ==
    Join("\n\n", SelectSeq(Take(Paragraphs(container), 15),
                           LAMBDA text : Len(text) > 30))

\* lines 132-139: the first occurrence of each url, in order
RECURSIVE FirstOccurrences(_, _)
FirstOccurrences(links, seen) ==
    IF links = <<>> THEN <<>>
    ELSE IF Head(links).href \in seen
         THEN FirstOccurrences(Tail(links), seen)
         ELSE <<Head(links)>>
                \o FirstOccurrences(Tail(links), seen \cup {Head(links).href})

\* lines 115-139: the links of the body worth following from a breed page
FoundUrls(container, visited_urls, breed_url) ==
    LET named == SelectSeq(container.links,
                    LAMBDA l : l.href # <<"">> /\ l.text # "" /\ Len(l.text) > 2)
        absolute == [i \in 1..Len(named) |->
                        Link(Absolute(named[i].href), named[i].text)]
        kept == SelectSeq(absolute,
                    LAMBDA l : /\ OnSite(l.href)
                               /\ l.href \notin visited_urls
                               /\ ~HasHash(l.href)
                               /\ l.href # breed_url)
    IN  FirstOccurrences(kept, {})

\* return None, "", []
NothingScraped(visited_urls, requested) ==
    [title |-> None, content |-> "", found_urls |-> <<>>,
     visited_urls |-> visited_urls, requested |-> requested, raised |-> FALSE]

\* Faulty variant of FetchFailed: the exception leaves scrape_page.
FetchFailedUncaught(visited_urls, url) ==
    [NothingScraped(visited_urls, <<url>>) EXCEPT !.raised = TRUE]

\* lines 146-148: except Exception: return None, "", []
FetchFailed(visited_urls, url) == NothingScraped(visited_urls, <<url>>)

\* scrape_page(url, is_related_page) on the page requests.get gives for url;
\* breed_url is the main loop's variable, read through the closure. The
\* result carries the set visited_urls as the call leaves it and the urls
\* it requested.
scrape_page(url, is_related_page, visited_urls, breed_url, page) ==
    IF url \in visited_urls THEN NothingScraped(visited_urls, <<>>)
    ELSE
    LET visited == visited_urls \cup {url} IN
    IF page.raises THEN FetchFailed(visited, url)
    ELSE
    LET body == main_content(page) IN
    [title |-> Title(page),
     content |-> IF body.present THEN ContentText(body) ELSE "",
     found_urls |-> IF body.present /\ ~is_related_page
                    THEN FoundUrls(body, visited, breed_url)
                    ELSE <<>>,
     visited_urls |-> visited, requested |-> <<url>>, raised |-> FALSE]

\* Faulty variant of BreedPageQualifies: any body at all will do.
BreedPageQualifiesAnyLength(title, content) ==
    title \notin {None, ""} /\ content # ""

\* line 230: if title and content and len(content) > 100
BreedPageQualifies(title, content) ==
    title \notin {None, ""} /\ content # "" /\ Len(content) > 100

\* line 243: if rel_title and rel_content and len(rel_content) > 30
RelatedPageQualifies(rel_title, rel_content) ==
    rel_title \notin {None, ""} /\ rel_content # "" /\ Len(rel_content) > 30

\* line 244
RelatedContent(rel_title, rel_content) ==
    "\n\n--- " \o rel_title \o " ---\n" \o rel_content

\* lines 247-263
BreedDocument(title, content, breed_url, related_contents, related_pages) ==
    Document(content \o Join("", related_contents),
             [title |-> title, url |-> breed_url,
              source |-> "Royal Kennel Club",
              related_pages_count |-> Len(related_pages),
              related_pages |-> related_pages])

----------------------------------------------------------------------------
(* scrapper.py: the listing page, the limits and the sites scraped *)

\* lines 171-182
BreedLinks(page) ==
    SelectSeq(AllLinks(page), LAMBDA l : MatchesBreedPattern(l.href))

\* unique_links[href] = text: a dict keeps the place of a key's first
\* insertion and the value of its last.
DictPut(dict, key, value) ==
    IF \E i \in 1..Len(dict) : dict[i].url = key
    THEN [i \in 1..Len(dict) |->
            IF dict[i].url = key THEN [url |-> key, name |-> value]
            ELSE dict[i]]
    ELSE Append(dict, [url |-> key, name |-> value])

\* lines 186-193 and 208-213: absolute href, and only links with a text
RECURSIVE PutLinks(_, _)
PutLinks(dict, links) ==
    IF links = <<>> THEN dict
    ELSE PutLinks(IF Head(links).text # ""
                  THEN DictPut(dict, Absolute(Head(links).href), Head(links).text)
                  ELSE dict,
                  Tail(links))

\* lines 203-208: the first link of each div whose class contains "breed"
ItemLinks(page) ==
    LET linked == SelectSeq(page.breed_items,
                      LAMBDA item : item # <<>> /\ item[1].href # <<"">>)
    IN  [i \in 1..Len(linked) |-> linked[i][1]]

\* lines 185-215
UniqueLinks(page) ==
    LET by_pattern == PutLinks(<<>>, BreedLinks(page)) IN
    IF Len(by_pattern) = 0 THEN PutLinks(by_pattern, ItemLinks(page))
    ELSE by_pattern

\* Faulty variant of Candidates: every breed link is scraped.
CandidatesUnlimited(unique_links) == unique_links

\* line 223: list(unique_links.items())[:max_breeds]
Candidates(unique_links) == Take(unique_links, max_breeds)

\* line 237: found_urls[:max_related]
RelatedToFollow(found_urls) == Take(found_urls, max_related)

CareLink == Link(<<"", "health", "akita-care">>, "Akita care")

AkitaLinks ==
    << CareLink,
       Link(<<"", "search", "breeds-a-to-z">>, "All breeds"),
       Link(UrlBorzoi, "Borzoi"),
       Link(<<"", "breed", "akita#health">>, "Health"),
       Link(<<"https:", "", "example.org", "dogs">>, "Dogs elsewhere"),
       Link(<<"", "about">>, "Us"),
       Link(<<"", "breed", "akita">>, "Akita"),
       Link(<<"", "health", "akita-care">>, "Care again") >>

AkitaBody ==
    Container(<<>>,
              <<Text("Akita origin", 60), Text("brief", 30),
                Text("Akita temperament", 60)>>,
              AkitaLinks)

AkitaPages ==
    { Html(<<"Akita">>, AkitaBody,
           Container(<<>>, <<Text("Akita article", 120)>>, <<>>), NoContainer),
      Html(<<"Akita">>,
           Container(<<>>, <<Text("Akita a", 49), Text("Akita b", 49)>>,
                     <<CareLink>>),
           NoContainer, NoContainer),
      Html(<<"Akita">>,
           Container(<<>>, <<Text("Akita a", 49), Text("Akita b", 50)>>,
                     <<CareLink>>),
           NoContainer, NoContainer),
      Html(<<"Akita">>, NoContainer,
           Container(<<Text("Akita text block", 120)>>,
                     <<Text("Akita paragraph", 120)>>, <<CareLink>>),
           Container(<<>>, <<Text("Akita div", 120)>>, <<>>)),
      [Html(<<"Akita">>, NoContainer, NoContainer, NoContainer)
          EXCEPT !.loose_ps = <<Text("Akita loose paragraph", 120)>>],
      Html(<<"">>, AkitaBody, NoContainer, NoContainer),
      Html(<<>>, AkitaBody, NoContainer, NoContainer),
      Html(<<"Akita">>,
           Container(<<>>, <<Text("Akita and friends", 120)>>,
                     <<Link(UrlBorzoi, "Borzoi")>>),
           NoContainer, NoContainer),
      Unreachable }

BorzoiPages ==
    { Html(<<"Borzoi">>, NoContainer, NoContainer,
           Container(<<>>, <<Text("Borzoi", 110)>>,
                     <<CareLink, Link(UrlAkita, "Akita")>>)),
      Html(<<"Borzoi">>,
           Container(<<>>, <<Text("Borzoi", 60)>>, <<>>),
           NoContainer, NoContainer),
      Unreachable }

CorgiPages ==
    { Html(<<"Corgi">>,
           Container(<<>>, <<Text("Corgi", 101)>>, <<>>),
           NoContainer, NoContainer),
      Unreachable }

CarePages ==
    { Html(<<"Akita care">>,
           Container(<<>>, <<Text("Care", 31)>>, <<Link(UrlCorgi, "Corgi")>>),
           NoContainer, NoContainer),
      Html(<<"Akita care">>,
           Container(<<>>, <<Text("Care", 30), Text("More care", 30)>>, <<>>),
           NoContainer, NoContainer),
      Unreachable }

ListingLinks ==
    << Link(<<"", "breed", "akita">>, "Akita"),
       Link(UrlBorzoi, "Borzoi"),
       Link(<<"", "about">>, "About"),
       Link(UrlAkita, "Akita (Japanese)"),
       Link(<<"", "dog-breeds", "corgi">>, "Corgi"),
       Link(<<"", "breed", "unnamed">>, ""),
       Link(<<"", "pug">>, "Pug") >>

ListingPages ==
    { [Html(<<"Breeds A to Z">>,
            Container(<<>>, <<Text("Browse the breeds", 40)>>, ListingLinks),
            NoContainer, NoContainer)
          EXCEPT !.breed_items = << <<Link(<<"", "pug">>, "Pug")>> >>],
      Html(<<"Breeds A to Z">>,
           Container(<<>>, <<Text("Browse the breeds", 40)>>,
                     <<Link(<<"", "BREED", "akita">>, "Akita")>>),
           NoContainer, NoContainer),
      [Html(<<"Breeds">>,
            Container(<<>>, <<>>, <<Link(<<"", "akita">>, "Akita")>>),
            NoContainer, NoContainer)
          EXCEPT !.breed_items =
                    << <<Link(<<"", "akita">>, "Akita")>>, <<>>,
                       <<Link(<<"", "unnamed">>, "")>>,
                       <<Link(<<"", "Breeds", "borzoi">>, "")>> >>,
                 !.nav_links = <<Link(<<"", "Breeds", "borzoi">>, "")>>],
      Unreachable }

\* The sites a run may meet: one page per url, fixed for the run.
Webs ==
    [listing : ListingPages, akita : AkitaPages, borzoi : BorzoiPages,
     corgi : CorgiPages, care : CarePages]

NoWeb ==
    [listing |-> Unreachable, akita |-> Unreachable, borzoi |-> Unreachable,
     corgi |-> Unreachable, care |-> Unreachable]

\* requests.get(url) on a site; a url the site does not know gets its
\* "not found" page.
Fetch(site, url) ==
    CASE url = base_url -> site.listing
      [] url \in {UrlAkita, Site \o <<"BREED", "akita">>, Site \o <<"akita">>}
            -> site.akita
      [] url = UrlBorzoi -> site.borzoi
      [] url = UrlCorgi -> site.corgi
      [] url = UrlCare -> site.care
      [] OTHER -> Html(<<"Page not found">>, NoContainer, NoContainer, NoContainer)

\* lines 38-40 and the locals of the main loop; log is the sequence of
\* requests.get and time.sleep calls made, calls the scrape_page calls.
\* The loop indices i and j count from 1.
NotStarted ==
    [pc |-> "not started", visited_urls |-> {}, documents |-> <<>>,
     candidates |-> <<>>, i |-> 0, title |-> "", content |-> "",
     found_urls |-> <<>>, j |-> 0, related_contents |-> <<>>,
     related_pages |-> <<>>, log |-> <<>>, calls |-> <<>>]

----------------------------------------------------------------------------
(* Threads of the process inside get_rag_pipeline *)

\* Streamlit runs the script of each browser session in a thread of its
\* own; the threads share rag_module and its two globals.
NumThreads == 2

Threads == 1..NumThreads

Idle ==
    [pc |-> "idle", use_scraped_data |-> FALSE, new |-> NoInstance,
     returned |-> NoInstance, raised |-> "none"]

NoThreads == [t \in Threads |-> Idle]

----------------------------------------------------------------------------
(* Observation of the last operation *)

NoDisplay == [error |-> "", markdown |-> ""]

\* streamlit_app.py lines 182-219 and 385-420: the answer is drawn with
\* st.markdown; an exception of answer_question is drawn with st.error and
\* nothing else of the answer is.
ShowAnswer(answer) ==
    IF answer.raised # "none"
    THEN [error |-> "Error getting recommendation", markdown |-> ""]
    ELSE [error |-> "", markdown |-> answer.text]

\* What a click on "Search breeds" or "Get My Breed Recommendations" draws.
Displayed(op, call, answered_by, answer) ==
    IF op \notin {"search", "quiz"} THEN NoDisplay
    ELSE IF call.raised # "none"
    THEN [error |-> call.raised, markdown |-> ""]
    ELSE IF answered_by = NoInstance THEN NoDisplay
    ELSE ShowAnswer(answer)

Observation(op, arg, ext, call, answered_by, answer) ==
    [op |-> op, arg |-> arg, ext |-> ext,
     pre_instance |-> _rag_instance, pre_flag |-> _rag_instance_use_scraped,
     pre_heap |-> Len(heap), pre_session |-> session_state,
     pre_file |-> data_file,
     constructed |-> call.constructed, construction |-> call.construction,
     returned |-> call.returned, raised |-> call.raised,
     answered_by |-> answered_by, answer |-> answer,
     display |-> Displayed(op, call, answered_by, answer)]

NoCall ==
    [constructed |-> FALSE, construction |-> NoConstruction, raised |-> "none",
     returned |-> NoInstance]

AllOk == [embedder_ok |-> TRUE, llm_ok |-> TRUE]

KeyValues ==
    { Unset, <<>>, <<" ", "\t">>, YourKey, <<" ">> \o YourKey \o <<"\n">>,
      <<" ">> \o RealKey, YourKey \o <<"2">> }

Init ==
    /\ threads = NoThreads
    /\ environ \in KeyValues
    /\ data_file \in DataFiles
    /\ heap = <<>>
    /\ _rag_instance = NoInstance
    /\ _rag_instance_use_scraped = None
    /\ session_state = [show_quiz |-> FALSE, rag_pipeline |-> NoInstance,
                        scraped_data_loaded |-> FALSE]
    /\ cleared_at = 0
    /\ last = [op |-> "start", arg |-> "", ext |-> AllOk,
               pre_instance |-> NoInstance, pre_flag |-> None,
               pre_heap |-> 0, pre_session |-> session_state,
               pre_file |-> data_file,
               constructed |-> FALSE, construction |-> NoConstruction,
               returned |-> NoInstance, raised |-> "none",
               answered_by |-> NoInstance, answer |-> NoAnswer,
               display |-> NoDisplay]
    /\ web = NoWeb
    /\ scraper = NotStarted

----------------------------------------------------------------------------
(* Calls of the module's functions by a client in the process *)

CallGetRagPipeline(use_scraped_data, ext) ==
    /\ CacheMiss(use_scraped_data) => Len(heap) < MaxInstances
    /\ LET call == get_rag_pipeline(use_scraped_data, ext) IN
        /\ heap' = call.heap
        /\ _rag_instance' = call.instance
        /\ _rag_instance_use_scraped' = call.flag
        /\ last' = Observation("get_rag_pipeline", Flag(use_scraped_data), ext,
                               call, NoInstance, NoAnswer)
    /\ UNCHANGED <<threads, web, scraper, environ, data_file, session_state, cleared_at>>

CallReloadRagPipeline(use_scraped_data, ext) ==
    /\ Len(heap) < MaxInstances
    /\ LET call == reload_rag_pipeline(use_scraped_data, ext) IN
        /\ heap' = call.heap
        /\ _rag_instance' = call.instance
        /\ _rag_instance_use_scraped' = call.flag
        /\ last' = Observation("reload_rag_pipeline", Flag(use_scraped_data), ext,
                               call, NoInstance, NoAnswer)
    /\ UNCHANGED <<threads, web, scraper, environ, data_file, session_state, cleared_at>>

\* Faulty variant of CallAnswerQuestion: the retrieved documents are written
\* to the instance's store again.
CallAnswerQuestionWritesBack(i, question, ext) ==
    /\ i \in 1..Len(heap)
    /\ LET answer == answer_question(heap[i], question, ext) IN
        /\ last' = Observation("answer_question", question, ext,
                               [NoCall EXCEPT !.raised = answer.raised], i, answer)
        /\ heap' = [heap EXCEPT ![i].document_store = @ \o answer.documents]
    /\ UNCHANGED <<threads, web, scraper, environ, data_file, _rag_instance,
                   _rag_instance_use_scraped, session_state, cleared_at>>

\* rag.answer_question(question) on an instance the client holds.
CallAnswerQuestion(i, question, ext) ==
    /\ i \in 1..Len(heap)
    /\ LET answer == answer_question(heap[i], question, ext) IN
        last' = Observation("answer_question", question, ext,
                            [NoCall EXCEPT !.raised = answer.raised], i, answer)
    /\ UNCHANGED <<threads, web, scraper, environ, data_file, heap, _rag_instance,
                   _rag_instance_use_scraped, session_state, cleared_at>>

\* What one run of scrape_dog_breeds_rkc() gives its caller.
ScrapeOutcomes ==
    {[raised |-> TRUE, docs |-> <<>>]} \cup
    {[raised |-> FALSE, docs |-> d] :
        d \in {<<>>, <<DocAkita>>, <<DocBorzoi, DocAkita>>}}

\* Faulty variant of ShouldSave: an empty scrape is saved too.
ShouldSaveEmpty(outcome) == ~outcome.raised

\* "if docs:" after docs = scrape_dog_breeds_rkc(), at scrapper.py line 325
\* and streamlit_app.py lines 83 and 110; an exception never gets there.
ShouldSave(outcome) == ~outcome.raised /\ outcome.docs # <<>>

OutcomeName(outcome) ==
    IF outcome.raised THEN "raised"
    ELSE IF outcome.docs = <<>> THEN "no docs"
    ELSE "docs"

\* scrapper.py run as a script: scrape, and save when anything was scraped
\* (an exception out of the scrape ends the script with nothing written).
ScraperMain(outcome) ==
    /\ data_file' = IF ShouldSave(outcome)
                    THEN save_documents_to_json(outcome.docs)
                    ELSE data_file
    /\ last' = Observation("scrapper", OutcomeName(outcome), AllOk, NoCall,
                           NoInstance, NoAnswer)
    /\ UNCHANGED <<threads, web, scraper, environ, heap, _rag_instance, _rag_instance_use_scraped,
                   session_state, cleared_at>>

Next ==
    \/ \E f \in BOOLEAN, ext \in Externals : CallGetRagPipeline(f, ext)
    \/ \E f \in BOOLEAN, ext \in Externals : CallReloadRagPipeline(f, ext)
    \/ \E i \in 1..MaxInstances, q \in Questions, ext \in Externals :
          CallAnswerQuestion(i, q, ext)
    \/ \E outcome \in ScrapeOutcomes : ScraperMain(outcome)

Spec == Init /\ [][Next]_vars

----------------------------------------------------------------------------
(* streamlit_app.py: one run of the script per click *)

\* lines 64-72: the script reads the data file before it draws any button.
has_scraped_data == Exists(data_file)

ScriptTopRaises == has_scraped_data /\ data_file.kind # "json"

ScriptTopCrash(op) ==
    /\ ScriptTopRaises
    /\ last' = Observation(op, "", AllOk,
                           [NoCall EXCEPT !.raised = "JSONDecodeError"],
                           NoInstance, NoAnswer)
    /\ UNCHANGED <<threads, web, scraper, environ, data_file, heap, _rag_instance,
                   _rag_instance_use_scraped, session_state, cleared_at>>

\* The body shared by "Refresh Scraped Data" (lines 80-94) and "Scrape Royal
\* Kennel Club Data" (lines 107-120).
ScrapeAndSave(op, outcome) ==
    /\ IF ShouldSave(outcome)
       THEN /\ data_file' = save_documents_to_json(outcome.docs)
            /\ session_state' = [session_state EXCEPT
                                    !.scraped_data_loaded = FALSE,
                                    !.rag_pipeline = NoInstance]
            /\ cleared_at' = Len(heap)
       ELSE UNCHANGED <<threads, data_file, session_state, cleared_at>>
    /\ last' = Observation(op, OutcomeName(outcome), AllOk, NoCall,
                           NoInstance, NoAnswer)
    /\ UNCHANGED <<threads, web, scraper, environ, heap, _rag_instance, _rag_instance_use_scraped>>

ClickRefreshScrapedData(outcome) ==
    /\ has_scraped_data
    /\ \/ ScriptTopCrash("refresh")
       \/ ~ScriptTopRaises /\ ScrapeAndSave("refresh", outcome)

ClickScrapeRoyalKennelClubData(outcome) ==
    /\ ~has_scraped_data
    /\ ScrapeAndSave("scrape", outcome)

\* lines 98-101
ClickReloadRAGPipeline ==
    /\ has_scraped_data
    /\ \/ ScriptTopCrash("reload")
       \/ /\ ~ScriptTopRaises
          /\ session_state' = [session_state EXCEPT
                                  !.rag_pipeline = NoInstance,
                                  !.scraped_data_loaded = FALSE]
          /\ cleared_at' = Len(heap)
          /\ last' = Observation("reload", "", AllOk, NoCall, NoInstance, NoAnswer)
          /\ UNCHANGED <<threads, web, scraper, environ, data_file, heap, _rag_instance,
                         _rag_instance_use_scraped>>

\* Faulty variant of AskPipeline: no st.stop() after a failed
\* initialisation, so answer_question is called on None.
AskPipelineWithoutStop(op, question, ext) ==
    LET needs_init == session_state.rag_pipeline = NoInstance
        call == IF needs_init THEN get_rag_pipeline(has_scraped_data, ext)
                ELSE [Cached EXCEPT !.returned = session_state.rag_pipeline]
    IN
    /\ (needs_init /\ CacheMiss(has_scraped_data)) => Len(heap) < MaxInstances
    /\ heap' = call.heap
    /\ _rag_instance' = call.instance
    /\ _rag_instance_use_scraped' = call.flag
    /\ IF call.raised # "none"
       THEN /\ session_state' = session_state
            /\ last' = Observation(op, question, ext, call, NoInstance,
                           [NoAnswer EXCEPT !.raised = "AttributeError",
                                            !.question = question])
       ELSE /\ session_state' =
                 IF needs_init
                 THEN [session_state EXCEPT
                          !.rag_pipeline = call.returned,
                          !.scraped_data_loaded = has_scraped_data]
                 ELSE session_state
            /\ last' = Observation(op, question, ext, call, call.returned,
                           answer_question(call.heap[call.returned], question, ext))
    /\ UNCHANGED <<threads, web, scraper, environ, data_file, cleared_at>>

\* lines 157-219 and 360-420: initialise the session's pipeline if it has
\* none, then ask it; st.stop() after a failed initialisation.
AskPipeline(op, question, ext) ==
    LET needs_init == session_state.rag_pipeline = NoInstance
        call == IF needs_init THEN get_rag_pipeline(has_scraped_data, ext)
                ELSE [Cached EXCEPT !.returned = session_state.rag_pipeline]
    IN
    /\ (needs_init /\ CacheMiss(has_scraped_data)) => Len(heap) < MaxInstances
    /\ heap' = call.heap
    /\ _rag_instance' = call.instance
    /\ _rag_instance_use_scraped' = call.flag
    /\ IF call.raised # "none"
       THEN /\ session_state' = session_state
            /\ last' = Observation(op, question, ext, call, NoInstance, NoAnswer)
       ELSE /\ session_state' =
                 IF needs_init
                 THEN [session_state EXCEPT
                          !.rag_pipeline = call.returned,
                          !.scraped_data_loaded = has_scraped_data]
                 ELSE session_state
            /\ last' = Observation(op, question, ext, call, call.returned,
                           answer_question(call.heap[call.returned], question, ext))
    /\ UNCHANGED <<threads, web, scraper, environ, data_file, cleared_at>>

\* lines 152-221
ClickSearchBreeds(characteristics, ext) ==
    \/ ScriptTopCrash("search")
    \/ /\ ~ScriptTopRaises
       /\ IF characteristics # ""
          THEN AskPipeline("search", SearchQuestion(characteristics), ext)
          ELSE /\ last' = Observation("search", "", ext, NoCall, NoInstance, NoAnswer)
               /\ UNCHANGED <<threads, web, scraper, environ, data_file, heap, _rag_instance,
                              _rag_instance_use_scraped, session_state, cleared_at>>

\* lines 237-238
ClickTakeQuiz ==
    \/ ScriptTopCrash("take quiz")
    \/ /\ ~ScriptTopRaises
       /\ session_state' = [session_state EXCEPT !.show_quiz = ~@]
       /\ last' = Observation("take quiz", "", AllOk, NoCall, NoInstance, NoAnswer)
       /\ UNCHANGED <<threads, web, scraper, environ, data_file, heap, _rag_instance,
                      _rag_instance_use_scraped, cleared_at>>

\* lines 349-420
SubmitQuiz(ext) ==
    /\ session_state.show_quiz
    /\ \/ ScriptTopCrash("quiz")
       \/ ~ScriptTopRaises /\ AskPipeline("quiz", ProfileQuestion, ext)

NextApp ==
    \/ \E outcome \in ScrapeOutcomes : ClickRefreshScrapedData(outcome)
    \/ \E outcome \in ScrapeOutcomes : ClickScrapeRoyalKennelClubData(outcome)
    \/ ClickReloadRAGPipeline
    \/ \E c \in Characteristics, ext \in Externals : ClickSearchBreeds(c, ext)
    \/ ClickTakeQuiz
    \/ \E ext \in Externals : SubmitQuiz(ext)

SpecApp == Init /\ [][NextApp]_vars

\* The app's scrape buttons and searches beside runs of scrapper.py as a
\* script, which write the same data file.
NextSave ==
    \/ \E outcome \in ScrapeOutcomes : ClickRefreshScrapedData(outcome)
    \/ \E outcome \in ScrapeOutcomes : ClickScrapeRoyalKennelClubData(outcome)
    \/ \E c \in Characteristics, ext \in Externals : ClickSearchBreeds(c, ext)
    \/ \E outcome \in ScrapeOutcomes : ScraperMain(outcome)

SpecSave == Init /\ [][NextSave]_vars

----------------------------------------------------------------------------
(* Properties of construction and of the module cache *)

Contains(seq, x) == \E i \in 1..Len(seq) : seq[i] = x

Titles(docs) == [i \in 1..Len(docs) |-> docs[i].meta["title"]]

BuiltInTitles ==
    << "Labrador Retriever", "Golden Retriever", "French Bulldog",
       "Poodle (Standard)", "Beagle" >>

HoldsBuiltInDataset(store) ==
    /\ Len(store) = 5
    /\ Titles(store) = BuiltInTitles
    /\ \A i \in 1..Len(store) : store[i].meta["source"] = "Built-in"

\* The key is unset, empty, only whitespace, or the placeholder.
KeyUnusable(env) ==
    \/ env = Unset
    \/ env = YourKey
    \/ \A i \in 1..Len(env) : env[i] \in Whitespace

\* C1: a construction attempted while OPENAI_API_KEY is unset, empty,
\* whitespace-only or "your-key" raises ValueError having done nothing but
\* read the environment (no store, no file access, no model load), and no
\* pipeline object comes into being.
C1_BadKeyFailsFirst ==
    (last.constructed /\ KeyUnusable(environ)) =>
        /\ last.construction.raised = "ValueError"
        /\ last.raised = "ValueError"
        /\ last.construction.effects = <<"os.getenv">>
        /\ last.returned = NoInstance
        /\ Len(heap) = last.pre_heap

C1_Witness ==
    /\ last.constructed
    /\ environ = <<" ", "\t">>
    /\ last.construction.raised = "ValueError"

\* C2: whenever construction fails on the credential check, the message
\* tells where to get a key, how to export it and to restart.
C2_MessageCarriesRemediation ==
    last.construction.raised = "ValueError" =>
        /\ Contains(last.construction.message.text,
                    "1. Get your API key from: https://platform.openai.com/account/api-keys")
        /\ Contains(last.construction.message.text,
                    "   export OPENAI_API_KEY='sk-proj-your-actual-key'")
        /\ Contains(last.construction.message.text, "3. Restart Streamlit:")

\* C3: a search or quiz submission is answered by an instance constructed
\* after the session's cached pipeline was last cleared.
C3_AnsweredByFreshInstance ==
    ( /\ last.op \in {"search", "quiz"}
      /\ last.answered_by # NoInstance
      /\ last.answer.raised = "none" ) =>
        last.answered_by > cleared_at

\* C4: get_rag_pipeline(f) runs the constructor exactly when nothing is
\* cached or the cached instance was requested with another flag; otherwise
\* it returns the cached instance itself and creates nothing.
C4_GetConstructsIffMiss ==
    last.op = "get_rag_pipeline" =>
        /\ last.constructed <=>
              \/ last.pre_instance = NoInstance
              \/ Flag(heap[last.pre_instance].use_scraped_data) # last.arg
        /\ ~last.constructed =>
              /\ last.returned = last.pre_instance
              /\ Len(heap) = last.pre_heap
              /\ _rag_instance = last.pre_instance
        /\ (last.constructed /\ last.raised = "none") =>
              /\ last.returned = last.pre_heap + 1
              /\ Len(heap) = last.pre_heap + 1

C4_Witness ==
    /\ last.op = "get_rag_pipeline"
    /\ ~last.constructed
    /\ last.returned # NoInstance

\* C5: reload_rag_pipeline(f) runs the constructor whatever the cache holds;
\* the new instance and f replace the cached pair, and a get_rag_pipeline(f)
\* that follows at once returns that instance without constructing.
C5_ReloadReplaces ==
    last.op = "reload_rag_pipeline" =>
        /\ last.constructed
        /\ last.raised = "none" =>
              /\ last.returned = last.pre_heap + 1
              /\ Len(heap) = last.pre_heap + 1
              /\ _rag_instance = last.returned
              /\ _rag_instance_use_scraped = last.arg
              /\ \A f \in BOOLEAN, ext \in Externals :
                    Flag(f) = last.arg =>
                        /\ ~get_rag_pipeline(f, ext).constructed
                        /\ get_rag_pipeline(f, ext).returned = last.returned

C5_Witness ==
    /\ last.op = "reload_rag_pipeline"
    /\ last.raised = "none"
    /\ last.pre_instance # NoInstance
    /\ last.pre_flag = last.arg

\* C6: with a usable key and a loadable embedding model, construction with
\* use_scraped_data=True and no data file succeeds and the store holds
\* exactly the five built-in documents; with use_scraped_data=False it holds
\* exactly those five whether or not the file exists.
C6_FallbackDataset ==
    ( /\ last.constructed
      /\ last.construction.raised # "ValueError"
      /\ last.ext.embedder_ok
      /\ \/ last.arg = "False"
         \/ last.arg = "True" /\ last.pre_file.kind = "missing" ) =>
        /\ last.raised = "none"
        /\ HoldsBuiltInDataset(heap[last.returned].document_store)

C6_Witness ==
    /\ last.constructed
    /\ last.arg = "True"
    /\ last.pre_file.kind = "missing"
    /\ last.raised = "none"
    /\ HoldsBuiltInDataset(heap[last.returned].document_store)

Malformed(fl) ==
    \/ fl.kind = "text"
    \/ fl.kind = "json" /\ \E i \in 1..Len(fl.data) : "content" \notin DOMAIN fl.data[i]

\* C7: with a usable key and a loadable embedding model, construction with
\* use_scraped_data=True over a malformed data file recovers by loading the
\* built-in dataset.
C7_MalformedFileFallsBack ==
    ( /\ last.constructed
      /\ last.construction.raised # "ValueError"
      /\ last.ext.embedder_ok
      /\ last.arg = "True"
      /\ Malformed(last.pre_file) ) =>
        /\ last.raised = "none"
        /\ HoldsBuiltInDataset(heap[last.returned].document_store)

----------------------------------------------------------------------------
(* Retrieval and prompt assembly over larger stores *)

WellFormedItems == {ItemOf(DocAkita), ItemOf(DocBorzoi), ItemContentOnly}

RetrievalFiles ==
    {Missing} \cup {JsonArray(s) : s \in SeqsUpTo(WellFormedItems, MaxStoreLen)}

TopKs == (0..MaxTopK) \cup {top_k_default}

InitRetrieve ==
    /\ threads = NoThreads
    /\ environ = <<" ">> \o RealKey
    /\ data_file \in RetrievalFiles
    /\ heap = <<>>
    /\ _rag_instance = NoInstance
    /\ _rag_instance_use_scraped = None
    /\ session_state = [show_quiz |-> FALSE, rag_pipeline |-> NoInstance,
                        scraped_data_loaded |-> FALSE]
    /\ cleared_at = 0
    /\ last = [op |-> "start", arg |-> "", ext |-> AllOk,
               pre_instance |-> NoInstance, pre_flag |-> None,
               pre_heap |-> 0, pre_session |-> session_state,
               pre_file |-> data_file,
               constructed |-> FALSE, construction |-> NoConstruction,
               returned |-> NoInstance, raised |-> "none",
               answered_by |-> NoInstance, answer |-> NoAnswer,
               display |-> NoDisplay]
    /\ web = NoWeb
    /\ scraper = NotStarted

\* The instance's retriever run on its own with an explicit top_k:
\* retriever.run(query_embedding=text_embedder.run(question), top_k=k)
RetrieverRun(i, question, top_k) ==
    /\ i \in 1..Len(heap)
    /\ LET q == TextEmbedderRun(heap[i].text_embedder, question) IN
        last' = Observation("retriever.run", question, AllOk, NoCall, i,
                    [NoAnswer EXCEPT
                        !.question = question,
                        !.query_embedding = q,
                        !.top_k = top_k,
                        !.documents = Retrieve(heap[i].document_store, q, top_k),
                        !.stages = <<"text_embedder", "retriever">>])
    /\ UNCHANGED <<threads, web, scraper, environ, data_file, heap, _rag_instance,
                   _rag_instance_use_scraped, session_state, cleared_at>>

NextRetrieve ==
    \/ \E f \in BOOLEAN, ext \in Externals : CallGetRagPipeline(f, ext)
    \/ \E i \in 1..MaxInstances, q \in Questions, k \in TopKs :
          RetrieverRun(i, q, k)
    \/ \E i \in 1..MaxInstances, q \in Questions, ext \in Externals :
          CallAnswerQuestion(i, q, ext)

SpecRetrieve == InitRetrieve /\ [][NextRetrieve]_vars

Range(seq) == {seq[i] : i \in 1..Len(seq)}

\* C8: over a store of at least one document and for k not above its size,
\* retrieval returns exactly k documents of the store, in non-increasing
\* order of similarity to the query vector, and no document left out scores
\* strictly higher than one returned.
C8_TopKRanked ==
    LET store == heap[last.answered_by].document_store
        found == last.answer.documents
        q == last.answer.query_embedding
    IN
    ( /\ last.op = "retriever.run"
      /\ Len(store) >= 1
      /\ last.answer.top_k <= Len(store) ) =>
        /\ Len(found) = last.answer.top_k
        /\ Range(found) \subseteq Range(store)
        /\ \A i, j \in 1..Len(found) :
              i < j => /\ Score(q, found[i]) >= Score(q, found[j])
                       /\ found[i] # found[j]
        /\ \A d \in Range(store) \ Range(found) :
              \A r \in Range(found) : q * d.embedding.vector <= q * r.embedding.vector

C8_Witness ==
    /\ last.op = "retriever.run"
    /\ Len(heap[last.answered_by].document_store) = 3
    /\ last.answer.top_k = 2
    /\ Len(last.answer.documents) = 2
    /\ Score(last.answer.query_embedding, last.answer.documents[1])
          > Score(last.answer.query_embedding, last.answer.documents[2])
    /\ \E d \in Range(heap[last.answered_by].document_store) :
          d \notin Range(last.answer.documents)

\* C9: asked over an empty store (the data file an empty JSON array), the
\* retriever returns the empty list and answer_question goes on to build the
\* prompt and to call the generator once, with no document in the prompt.
C9_EmptyStoreAnswers ==
    ( /\ last.op = "answer_question"
      /\ heap[last.answered_by].document_store = <<>>
      /\ last.ext.embedder_ok ) =>
        /\ last.answer.documents = <<>>
        /\ last.answer.stages =
              <<"text_embedder", "retriever", "prompt_builder", "llm">>
        /\ last.answer.llm_calls = 1
        /\ ~Contains(last.answer.prompt, "- ")
        /\ Contains(last.answer.prompt, last.answer.question)
        /\ last.ext.llm_ok =>
              /\ last.answer.raised = "none"
              /\ last.answer.text # ""

C9_Witness ==
    /\ last.op = "answer_question"
    /\ data_file = JsonArray(<<>>)
    /\ heap[last.answered_by].use_scraped_data
    /\ heap[last.answered_by].document_store = <<>>
    /\ last.answer.documents = <<>>
    /\ last.answer.llm_calls = 1
    /\ last.answer.raised = "none"

RECURSIVE TitlesAndBodies(_)
TitlesAndBodies(docs) ==
    IF docs = <<>> THEN <<>>
    ELSE <<Head(docs).meta["title"], Head(docs).content>>
            \o TitlesAndBodies(Tail(docs))

\* a is b with some entries left out
RECURSIVE IsSubsequence(_, _)
IsSubsequence(a, b) ==
    IF a = <<>> THEN TRUE
    ELSE IF b = <<>> THEN FALSE
    ELSE IF Head(a) = Head(b) THEN IsSubsequence(Tail(a), Tail(b))
    ELSE IsSubsequence(a, Tail(b))

PromptBuilt(obs) == Contains(obs.answer.stages, "prompt_builder")

\* C10: every rendered prompt holds the title and the body of each retrieved
\* document, in retrieval order, and the question, all verbatim; and a call
\* that renders the same documents and question as the call before it
\* renders the same prompt.
C10_PromptCarriesDocuments ==
    [][ PromptBuilt(last') =>
          /\ IsSubsequence(TitlesAndBodies(last'.answer.documents),
                           last'.answer.prompt)
          /\ Contains(last'.answer.prompt, last'.answer.question)
          /\ ( /\ PromptBuilt(last)
               /\ last.answer.documents = last'.answer.documents
               /\ last.answer.question = last'.answer.question ) =>
                 last'.answer.prompt = last.answer.prompt ]_vars

C10_Witness ==
    /\ last.op = "answer_question"
    /\ PromptBuilt(last)
    /\ Len(last.answer.documents) = 3
    /\ last.answer.documents[1] # heap[last.answered_by].document_store[1]
    /\ last.answer.documents[1].meta["title"] = "Unknown"

----------------------------------------------------------------------------
(* The pipeline's stages, the store's embeddings and failures of a call *)

PipelineOrder == <<"text_embedder", "retriever", "prompt_builder", "llm">>

IsPrefix(a, b) == Len(a) <= Len(b) /\ a = SubSeq(b, 1, Len(a))

\* C11: a call of answer_question runs the embedder, the retriever, the
\* prompt builder and the generator in this order, none of them twice and
\* all four unless the embedder raised; the retriever is handed the vector
\* the embedder gave for the question, the prompt builder the documents the
\* retriever returned, the generator the prompt that was built.
C11_StagesInOrder ==
    last.op = "answer_question" =>
        LET a == last.answer
            self == heap[last.answered_by]
        IN  /\ IsPrefix(a.stages, PipelineOrder)
            /\ a.stages # <<>>
            /\ last.ext.embedder_ok =>
                  /\ a.stages = PipelineOrder
                  /\ a.query_embedding = Encode(self.text_embedder, last.arg)
                  /\ a.retriever_query = a.query_embedding
                  /\ a.documents =
                        Retrieve(self.document_store, a.retriever_query, a.top_k)
                  /\ a.builder_documents = a.documents
                  /\ a.prompt = PromptBuilderRun(a.builder_documents, last.arg)
                  /\ a.llm_messages = a.prompt
                  /\ a.llm_calls = 1

C11_Witness ==
    /\ last.op = "answer_question"
    /\ last.answer.stages = PipelineOrder
    /\ Len(last.answer.builder_documents) = 5
    /\ last.answer.llm_messages # <<>>
    /\ last.answer.text # ""

\* C12: in every constructed instance each document of the store carries
\* an embedding, and it is the vector the instance's query embedder's model
\* gives for the document's content.
C12_StoreEmbeddedBySameModel ==
    \A i \in 1..Len(heap) :
        \A j \in 1..Len(heap[i].document_store) :
            LET doc == heap[i].document_store[j] IN
            /\ doc.embedding.model # None
            /\ doc.embedding.model = heap[i].text_embedder
            /\ doc.embedding.vector = Encode(heap[i].text_embedder, doc.content)

C12_Witness ==
    /\ Len(heap) = 2
    /\ Len(heap[1].document_store) = 5
    /\ Len(heap[2].document_store) = 1
    /\ heap[2].document_store[1].embedding.vector # 0

Count(seq, x) == Cardinality({i \in 1..Len(seq) : seq[i] = x})

\* C13: a construction that succeeds writes to its store once, and from
\* then on no step changes an instance that exists: a call of
\* answer_question, whether it returns or raises, leaves every store as
\* it was.
C13_StoreWrittenOnce ==
    [][ /\ Len(heap') >= Len(heap)
        /\ \A i \in 1..Len(heap) : heap'[i] = heap[i]
        /\ last'.op = "answer_question" => heap' = heap
        /\ Len(heap') > Len(heap) =>
              /\ Len(heap') = Len(heap) + 1
              /\ Count(last'.construction.effects, "write_documents") = 1 ]_vars

C13_Witness ==
    /\ last.op = "answer_question"
    /\ last.answer.raised = "OpenAIError"
    /\ last.answer.documents # <<>>
    /\ Len(heap) = 2

\* C14: when the embedder or the generator fails during a question asked
\* from the app, answer_question raises, the handler draws an error and no
\* answer, and the generator has been called at most once (not at all when
\* it was the embedder that failed).
C14_FailureShownNoRetry ==
    ( /\ last.op \in {"search", "quiz"}
      /\ last.answered_by # NoInstance
      /\ ~(last.ext.embedder_ok /\ last.ext.llm_ok) ) =>
        /\ last.answer.raised # "none"
        /\ last.raised = "none"
        /\ last.display.error # ""
        /\ last.display.markdown = ""
        /\ last.answer.text = ""
        /\ last.answer.llm_calls <= 1
        /\ Count(last.answer.stages, "llm") <= 1
        /\ ~last.ext.embedder_ok => last.answer.llm_calls = 0

C14_Witness ==
    /\ last.op = "quiz"
    /\ last.answered_by # NoInstance
    /\ ~last.ext.llm_ok
    /\ last.answer.raised = "OpenAIError"
    /\ last.answer.llm_calls = 1
    /\ last.display.error # ""

----------------------------------------------------------------------------
(* scrapper.py: one run of scrape_dog_breeds_rkc(), a page at a time *)

Requested(url) == [op |-> "get", url |-> url, seconds |-> 0]

Slept(seconds) == [op |-> "sleep", url |-> <<>>, seconds |-> seconds]

RequestsOf(r) == [k \in 1..Len(r.requested) |-> Requested(r.requested[k])]

\* What one call of scrape_page was asked and gave.
CallOf(url, is_related_page, r) ==
    [url |-> url, is_related_page |-> is_related_page,
     requested |-> r.requested # <<>>, title |-> r.title,
     content |-> r.content, found_urls |-> r.found_urls]

InitScrape ==
    /\ threads = NoThreads
    /\ environ = Unset
    /\ data_file = Missing
    /\ heap = <<>>
    /\ _rag_instance = NoInstance
    /\ _rag_instance_use_scraped = None
    /\ session_state = [show_quiz |-> FALSE, rag_pipeline |-> NoInstance,
                        scraped_data_loaded |-> FALSE]
    /\ cleared_at = 0
    /\ last = [op |-> "start", arg |-> "", ext |-> AllOk,
               pre_instance |-> NoInstance, pre_flag |-> None,
               pre_heap |-> 0, pre_session |-> session_state,
               pre_file |-> data_file,
               constructed |-> FALSE, construction |-> NoConstruction,
               returned |-> NoInstance, raised |-> "none",
               answered_by |-> NoInstance, answer |-> NoAnswer,
               display |-> NoDisplay]
    /\ web \in Webs
    /\ scraper = [NotStarted EXCEPT !.pc = "listing"]

\* lines 154-221: fetch the listing page and collect the breed links; an
\* exception ends the run at line 273 with what has been collected.
FetchListing ==
    /\ scraper.pc = "listing"
    /\ LET page == Fetch(web, base_url)
           log == Append(scraper.log, Requested(base_url))
       IN  scraper' =
             IF page.raises
             THEN [scraper EXCEPT !.pc = "done", !.log = log]
             ELSE [scraper EXCEPT !.pc = "breed", !.log = log, !.i = 1,
                                  !.candidates = Candidates(UniqueLinks(page))]
    /\ UNCHANGED <<threads, web, environ, data_file, heap, _rag_instance,
                   _rag_instance_use_scraped, session_state, cleared_at, last>>

\* lines 247-263: documents.append(doc), and on to the next breed
WithDocument(s, title, content, breed_url, related_contents, related_pages) ==
    [s EXCEPT !.documents = Append(@, BreedDocument(title, content, breed_url,
                                          related_contents, related_pages)),
              !.pc = "breed", !.i = @ + 1]

\* lines 223-230 and 264-266: one turn of the loop over the breed pages up
\* to the first related page, or to the end of the turn when no related
\* page is to be followed.
ScrapeBreedPage ==
    /\ scraper.pc = "breed"
    /\ scraper.i <= Len(scraper.candidates)
    /\ LET breed_url == scraper.candidates[scraper.i].url
           slept == IF scraper.i > 1 THEN <<Slept(2)>> ELSE <<>>
           r == scrape_page(breed_url, FALSE, scraper.visited_urls, breed_url,
                            Fetch(web, breed_url))
           found_urls == RelatedToFollow(r.found_urls)
           s == [scraper EXCEPT
                    !.visited_urls = r.visited_urls,
                    !.log = @ \o slept \o RequestsOf(r),
                    !.calls = Append(@, CallOf(breed_url, FALSE, r))]
       IN  scraper' =
             IF r.raised THEN [s EXCEPT !.pc = "done"]
             ELSE IF ~BreedPageQualifies(r.title, r.content)
             THEN [s EXCEPT !.i = @ + 1]
             ELSE IF found_urls = <<>>
             THEN WithDocument(s, r.title, r.content, breed_url, <<>>, <<>>)
             ELSE [s EXCEPT !.pc = "related", !.j = 1,
                            !.title = r.title, !.content = r.content,
                            !.found_urls = found_urls,
                            !.related_contents = <<>>,
                            !.related_pages = <<>>]
    /\ UNCHANGED <<threads, web, environ, data_file, heap, _rag_instance,
                   _rag_instance_use_scraped, session_state, cleared_at, last>>

\* lines 237-246: one turn of the loop over the related pages, and the
\* rest of the breed's turn after the last of them.
ScrapeRelatedPage ==
    /\ scraper.pc = "related"
    /\ LET breed_url == scraper.candidates[scraper.i].url
           related_url == scraper.found_urls[scraper.j].href
           slept == IF scraper.j > 1 THEN <<Slept(1)>> ELSE <<>>
           r == scrape_page(related_url, TRUE, scraper.visited_urls, breed_url,
                            Fetch(web, related_url))
           qualifies == RelatedPageQualifies(r.title, r.content)
           related_contents ==
               IF qualifies
               THEN Append(scraper.related_contents,
                           RelatedContent(r.title, r.content))
               ELSE scraper.related_contents
           related_pages ==
               IF qualifies
               THEN Append(scraper.related_pages,
                           [title |-> r.title, url |-> related_url])
               ELSE scraper.related_pages
           s == [scraper EXCEPT
                    !.visited_urls = r.visited_urls,
                    !.log = @ \o slept \o RequestsOf(r),
                    !.calls = Append(@, CallOf(related_url, TRUE, r)),
                    !.related_contents = related_contents,
                    !.related_pages = related_pages]
       IN  scraper' =
             IF r.raised THEN [s EXCEPT !.pc = "done"]
             ELSE IF scraper.j < Len(scraper.found_urls)
             THEN [s EXCEPT !.j = @ + 1]
             ELSE WithDocument(s, scraper.title, scraper.content, breed_url,
                               related_contents, related_pages)
    /\ UNCHANGED <<threads, web, environ, data_file, heap, _rag_instance,
                   _rag_instance_use_scraped, session_state, cleared_at, last>>

\* line 277: return documents
ReturnDocuments ==
    /\ scraper.pc = "breed"
    /\ scraper.i > Len(scraper.candidates)
    /\ scraper' = [scraper EXCEPT !.pc = "done"]
    /\ UNCHANGED <<threads, web, environ, data_file, heap, _rag_instance,
                   _rag_instance_use_scraped, session_state, cleared_at, last>>

NextScrape ==
    \/ FetchListing
    \/ ScrapeBreedPage
    \/ ScrapeRelatedPage
    \/ ReturnDocuments

SpecScrape == InitScrape /\ [][NextScrape]_vars

----------------------------------------------------------------------------
(* Properties of a scrape run *)

BreedCalls == SelectSeq(scraper.calls, LAMBDA c : ~c.is_related_page)

Urls(seq) == [k \in 1..Len(seq) |-> seq[k].url]

DocumentUrls == [k \in 1..Len(scraper.documents) |-> scraper.documents[k].meta.url]

Gets == SelectSeq(scraper.log, LAMBDA entry : entry.op = "get")

\* The breed page whose related pages are being scraped.
InProgress(url) ==
    scraper.pc = "related" /\ scraper.candidates[scraper.i].url = url

\* C15: a breed page whose scrape gives no title, or a body of 100
\* characters or fewer, gets no Document; every other breed page scraped
\* gets exactly one, whatever became of the pages before it, and the run
\* goes on to every breed link it kept.
C15_ShortPagesSkippedOthersKept ==
    /\ \A c \in 1..Len(scraper.calls) :
        LET call == scraper.calls[c]
            docs == {k \in 1..Len(scraper.documents) :
                        scraper.documents[k].meta.url = call.url}
        IN  ~call.is_related_page =>
              IF call.title \in {None, ""} \/ Len(call.content) <= 100
              THEN docs = {}
              ELSE InProgress(call.url) \/ Cardinality(docs) = 1
    /\ (scraper.pc = "done" /\ ~Fetch(web, base_url).raises) =>
          Urls(BreedCalls) = Urls(scraper.candidates)

C15_Witness ==
    /\ scraper.pc = "done"
    /\ Len(BreedCalls) = 2
    /\ BreedCalls[1].title = "Akita"
    /\ Len(BreedCalls[1].content) = 100
    /\ DocumentUrls = <<UrlBorzoi>>

\* C16: a run always ends by returning: with no document and no page
\* scraped when the listing fetch raised, and otherwise having scraped every
\* breed link it kept, with one Document, in order, for each of them that
\* was fetched without an exception and qualified.
C16_FetchFailuresIsolated ==
    scraper.pc = "done" =>
        LET listing == Fetch(web, base_url) IN
        IF listing.raises
        THEN scraper.documents = <<>> /\ scraper.calls = <<>>
        ELSE
        LET kept == Candidates(UniqueLinks(listing))
            good == SelectSeq(BreedCalls,
                        LAMBDA c : /\ c.requested
                                   /\ ~Fetch(web, c.url).raises
                                   /\ c.title # ""
                                   /\ Len(c.content) > 100)
        IN  /\ Urls(BreedCalls) = Urls(kept)
            /\ DocumentUrls = Urls(good)

C16_Witness ==
    /\ scraper.pc = "done"
    /\ web.akita.raises
    /\ web.care.raises
    /\ Urls(Gets) = <<base_url, UrlAkita, UrlBorzoi, UrlCare>>
    /\ DocumentUrls = <<UrlBorzoi>>
    /\ scraper.documents[1].meta.related_pages_count = 0

\* C17: no url is requested twice in one run.
C17_NoUrlRequestedTwice ==
    \A a, b \in 1..Len(Gets) : a < b => Gets[a].url # Gets[b].url

\* The related calls made since the last breed call before c.
RelatedSince(c) ==
    {r \in 1..c : /\ scraper.calls[r].is_related_page
                  /\ \A k \in r..c : scraper.calls[k].is_related_page}

\* C18: a run scrapes at most max_breeds breed pages and, for each of them,
\* at most max_related related pages, all of them among the links found on
\* that breed page; a page scraped as a related page gives no links, and
\* nothing but the listing, the breed links and those related links is
\* requested.
C18_CrawlBoundedOneLevel ==
    /\ Len(BreedCalls) <= max_breeds
    /\ \A c \in 1..Len(scraper.calls) :
        LET call == scraper.calls[c] IN
        call.is_related_page =>
            /\ Cardinality(RelatedSince(c)) <= max_related
            /\ call.found_urls = <<>>
            /\ LET b == c - Cardinality(RelatedSince(c)) IN
                /\ b >= 1
                /\ \E k \in 1..Len(scraper.calls[b].found_urls) :
                      scraper.calls[b].found_urls[k].href = call.url
    /\ \A g \in 1..Len(Gets) :
          \/ g = 1 /\ Gets[g].url = base_url
          \/ \E c \in 1..Len(scraper.calls) : scraper.calls[c].url = Gets[g].url

C18_Witness ==
    /\ scraper.pc = "done"
    /\ Len(UniqueLinks(Fetch(web, base_url))) > max_breeds
    /\ Len(BreedCalls) = max_breeds
    /\ Len(BreedCalls[1].found_urls) > max_related
    /\ Len(scraper.calls) > 1 + max_related
    /\ Cardinality(RelatedSince(1 + max_related)) = max_related
    /\ web.care.main.links # <<>>
    /\ scraper.calls[2].url = UrlCare
    /\ scraper.calls[2].content # ""

\* C19: between two consecutive requests of a run there is a sleep.
C19_SleepBetweenFetches ==
    \A a \in 1..(Len(scraper.log) - 1) :
        scraper.log[a].op = "get" => scraper.log[a + 1].op = "sleep"

LongParagraphs(ps) == Join("\n\n", SelectSeq(ps, LAMBDA text : Len(text) > 30))

\* C20: the body of a page is taken from its <main>, else from its
\* <article>, else from its div of a matching class, and when the page has
\* none of them it is made of the page's paragraphs of more than 30
\* characters.
C20_BodyFromFirstContainerOrParagraphs ==
    \A c \in 1..Len(scraper.calls) :
        LET call == scraper.calls[c]
            page == Fetch(web, call.url)
        IN  (call.requested /\ ~page.raises) =>
              call.content =
                IF page.main.present THEN ContentText(page.main)
                ELSE IF page.article.present THEN ContentText(page.article)
                ELSE IF page.div.present THEN ContentText(page.div)
                ELSE LongParagraphs(page.loose_ps)

----------------------------------------------------------------------------
(* test_integration.py: scrape when there is no data file, save, build the
   pipeline, ask one question *)

TestQuery ==
    "I want a dog that is good with kids, has high energy, and doesn't shed much"

InitIntegration ==
    /\ threads = NoThreads
    /\ environ \in {Unset, <<" ">> \o RealKey}
    /\ data_file \in {Missing, JsonArray(<<ItemOf(DocAkita)>>)}
    /\ heap = <<>>
    /\ _rag_instance = NoInstance
    /\ _rag_instance_use_scraped = None
    /\ session_state = [show_quiz |-> FALSE, rag_pipeline |-> NoInstance,
                        scraped_data_loaded |-> FALSE]
    /\ cleared_at = 0
    /\ last = [op |-> "start", arg |-> "", ext |-> AllOk,
               pre_instance |-> NoInstance, pre_flag |-> None,
               pre_heap |-> 0, pre_session |-> session_state,
               pre_file |-> data_file,
               constructed |-> FALSE, construction |-> NoConstruction,
               returned |-> NoInstance, raised |-> "none",
               answered_by |-> NoInstance, answer |-> NoAnswer,
               display |-> NoDisplay]
    /\ IF Exists(data_file)
       THEN web = NoWeb /\ scraper = [NotStarted EXCEPT !.pc = "scrape skipped"]
       ELSE web \in Webs /\ scraper = [NotStarted EXCEPT !.pc = "listing"]

\* lines 24-33: save what the scrape returned, if anything
IntegrationSave ==
    /\ scraper.pc = "done"
    /\ LET outcome == [raised |-> FALSE, docs |-> scraper.documents] IN
        /\ data_file' = IF ShouldSave(outcome)
                        THEN save_documents_to_json(outcome.docs)
                        ELSE data_file
        /\ last' = Observation("save", OutcomeName(outcome), AllOk, NoCall,
                               NoInstance, NoAnswer)
    /\ scraper' = [scraper EXCEPT !.pc = "saved"]
    /\ UNCHANGED <<threads, web, environ, heap, _rag_instance,
                   _rag_instance_use_scraped, session_state, cleared_at>>

\* lines 39-45: rag = get_rag_pipeline(use_scraped_data=has_scraped_data);
\* the script returns when that raises.
IntegrationInit(ext) ==
    /\ scraper.pc \in {"saved", "scrape skipped"}
    /\ LET has_data == Exists(data_file)
           call == get_rag_pipeline(has_data, ext)
       IN  /\ heap' = call.heap
           /\ _rag_instance' = call.instance
           /\ _rag_instance_use_scraped' = call.flag
           /\ last' = Observation("get_rag_pipeline", Flag(has_data), ext,
                                  call, NoInstance, NoAnswer)
           /\ scraper' = [scraper EXCEPT !.pc = IF call.raised # "none"
                                                THEN "returned"
                                                ELSE "initialised"]
    /\ UNCHANGED <<threads, web, environ, data_file, session_state, cleared_at>>

\* lines 47-60: the question is asked unless OPENAI_API_KEY is unset or
\* empty; an exception of answer_question is printed.
IntegrationAsk(ext) ==
    /\ scraper.pc = "initialised"
    /\ last' = IF Getenv(environ, <<>>) = <<>>
               THEN Observation("answer skipped", "", ext, NoCall,
                                NoInstance, NoAnswer)
               ELSE LET answer ==
                            answer_question(heap[_rag_instance], TestQuery, ext)
                    IN  Observation("answer_question", TestQuery, ext,
                                    [NoCall EXCEPT !.raised = answer.raised],
                                    _rag_instance, answer)
    /\ scraper' = [scraper EXCEPT !.pc = "returned"]
    /\ UNCHANGED <<threads, web, environ, data_file, heap, _rag_instance,
                   _rag_instance_use_scraped, session_state, cleared_at>>

NextIntegration ==
    \/ FetchListing
    \/ ScrapeBreedPage
    \/ ScrapeRelatedPage
    \/ ReturnDocuments
    \/ IntegrationSave
    \/ \E ext \in Externals : IntegrationInit(ext)
    \/ \E ext \in Externals : IntegrationAsk(ext)

SpecIntegration == InitIntegration /\ [][NextIntegration]_vars

\* A behaviour is either a session of the app or one run of the script.
InApp == scraper.pc = "not started"

NextRuns ==
    \/ InApp /\ \E outcome \in ScrapeOutcomes : ClickRefreshScrapedData(outcome)
    \/ InApp /\ \E outcome \in ScrapeOutcomes : ClickScrapeRoyalKennelClubData(outcome)
    \/ InApp /\ ClickReloadRAGPipeline
    \/ InApp /\ \E c \in Characteristics, ext \in Externals : ClickSearchBreeds(c, ext)
    \/ InApp /\ ClickTakeQuiz
    \/ InApp /\ \E ext \in Externals : SubmitQuiz(ext)
    \/ NextIntegration

SpecRuns == (Init \/ InitIntegration) /\ [][NextRuns]_vars

----------------------------------------------------------------------------
(* get_rag_pipeline called by several threads: a thread can be switched
   between any two reads or writes of the module's globals *)

ThreadCall(t, use_scraped_data) ==
    /\ threads[t].pc = "idle"
    /\ threads' = [threads EXCEPT ![t].pc = "test instance",
                                  ![t].use_scraped_data = use_scraped_data]
    /\ UNCHANGED <<environ, data_file, heap, _rag_instance,
                   _rag_instance_use_scraped, session_state, cleared_at, last,
                   web, scraper>>

\* line 282: _rag_instance is None
ThreadTestInstance(t) ==
    /\ threads[t].pc = "test instance"
    /\ threads' = [threads EXCEPT ![t].pc = IF _rag_instance = NoInstance
                                            THEN "construct" ELSE "test flag"]
    /\ UNCHANGED <<environ, data_file, heap, _rag_instance,
                   _rag_instance_use_scraped, session_state, cleared_at, last,
                   web, scraper>>

\* line 282: or _rag_instance_use_scraped != use_scraped_data
ThreadTestFlag(t) ==
    /\ threads[t].pc = "test flag"
    /\ threads' = [threads EXCEPT ![t].pc =
                       IF _rag_instance_use_scraped # Flag(threads[t].use_scraped_data)
                       THEN "construct" ELSE "return"]
    /\ UNCHANGED <<environ, data_file, heap, _rag_instance,
                   _rag_instance_use_scraped, session_state, cleared_at, last,
                   web, scraper>>

\* line 283, right-hand side: DogBreedRAG(use_scraped_data=use_scraped_data)
ThreadConstruct(t, ext) ==
    /\ threads[t].pc = "construct"
    /\ Len(heap) < MaxInstances
    /\ LET c == DogBreedRAG(threads[t].use_scraped_data, environ, data_file, ext) IN
       IF c.raised # "none"
       THEN /\ threads' = [threads EXCEPT ![t].pc = "raised",
                                          ![t].raised = c.raised]
            /\ heap' = heap
       ELSE /\ threads' = [threads EXCEPT ![t].pc = "store instance",
                                          ![t].new = Len(heap) + 1]
            /\ heap' = Append(heap, c.self)
    /\ UNCHANGED <<environ, data_file, _rag_instance,
                   _rag_instance_use_scraped, session_state, cleared_at, last,
                   web, scraper>>

\* line 283, the assignment: _rag_instance = ...
ThreadStoreInstance(t) ==
    /\ threads[t].pc = "store instance"
    /\ _rag_instance' = threads[t].new
    /\ threads' = [threads EXCEPT ![t].pc = "store flag"]
    /\ UNCHANGED <<environ, data_file, heap, _rag_instance_use_scraped,
                   session_state, cleared_at, last, web, scraper>>

\* line 284: _rag_instance_use_scraped = use_scraped_data
ThreadStoreFlag(t) ==
    /\ threads[t].pc = "store flag"
    /\ _rag_instance_use_scraped' = Flag(threads[t].use_scraped_data)
    /\ threads' = [threads EXCEPT ![t].pc = "return"]
    /\ UNCHANGED <<environ, data_file, heap, _rag_instance, session_state,
                   cleared_at, last, web, scraper>>

\* line 286: return _rag_instance
ThreadReturn(t) ==
    /\ threads[t].pc = "return"
    /\ threads' = [threads EXCEPT ![t].pc = "done",
                                  ![t].returned = _rag_instance]
    /\ UNCHANGED <<environ, data_file, heap, _rag_instance,
                   _rag_instance_use_scraped, session_state, cleared_at, last,
                   web, scraper>>

NextThreads ==
    \E t \in Threads :
        \/ \E use_scraped_data \in BOOLEAN : ThreadCall(t, use_scraped_data)
        \/ ThreadTestInstance(t)
        \/ ThreadTestFlag(t)
        \/ \E ext \in Externals : ThreadConstruct(t, ext)
        \/ ThreadStoreInstance(t)
        \/ ThreadStoreFlag(t)
        \/ ThreadReturn(t)

SpecThreads == Init /\ [][NextThreads]_vars

----------------------------------------------------------------------------
(* Properties of saving, loading and link discovery *)

\* C21: a scrape that raises or returns no document, from either button of
\* the app or from scrapper.py run as a script, leaves the data file, the
\* session state and the pipelines built so far as they were; the file is
\* rewritten, and in the app the session's pipeline and
\* scraped_data_loaded flag cleared, only by a scrape that returned at
\* least one document.
C21_FailedScrapeLeavesWork ==
    last.op \in {"refresh", "scrape", "scrapper"} =>
        /\ Len(heap) = last.pre_heap
        /\ _rag_instance = last.pre_instance
        /\ _rag_instance_use_scraped = last.pre_flag
        /\ last.arg \in {"raised", "no docs"} =>
              data_file = last.pre_file /\ session_state = last.pre_session
        /\ (data_file # last.pre_file \/ session_state # last.pre_session) =>
              last.arg = "docs"
        /\ last.arg = "docs" =>
              /\ data_file.kind = "json"
              /\ data_file.data # <<>>
              /\ last.op # "scrapper" =>
                    /\ session_state.rag_pipeline = NoInstance
                    /\ ~session_state.scraped_data_loaded

C21_Witness ==
    /\ last.op = "refresh"
    /\ last.arg = "no docs"
    /\ session_state.rag_pipeline # NoInstance
    /\ session_state.scraped_data_loaded
    /\ data_file.data # <<>>

\* C22: when the documents of a scrape have been saved and a pipeline then
\* built from the file, the file holds one object per document and the
\* store one document per object, in the same order, each with the content,
\* title, url and source of the document that was scraped.
C22_SaveLoadRoundTrip ==
    ( /\ scraper.pc \in {"saved", "initialised", "returned"}
      /\ scraper.documents # <<>> ) =>
        /\ data_file.kind = "json"
        /\ Len(data_file.data) = Len(scraper.documents)
        /\ Len(heap) = 1 =>
              LET store == heap[1].document_store IN
              /\ heap[1].use_scraped_data
              /\ Len(store) = Len(scraper.documents)
              /\ \A k \in 1..Len(store) :
                    LET saved == scraper.documents[k] IN
                    /\ store[k].content = saved.content
                    /\ store[k].meta.title = saved.meta.title
                    /\ store[k].meta.url = saved.meta.url
                    /\ store[k].meta.source = saved.meta.source

C22_Witness ==
    /\ scraper.pc = "initialised"
    /\ Len(heap) = 1
    /\ Len(heap[1].document_store) = 2
    /\ heap[1].document_store[1].meta.url = UrlAkita
    /\ heap[1].document_store[1].meta.title = "Unknown"
    /\ scraper.documents[1].meta.related_pages_count = 2
    /\ heap[1].document_store[2].meta.source = "Royal Kennel Club"

\* Links of the listing page that name a breed page: a non-empty text and
\* an href with /breed/, /breeds/ or /dog-breeds/ in it, in any case.
NamedBreedLinks ==
    LET links == AllLinks(web.listing) IN
    { k \in 1..Len(links) :
        /\ links[k].text # ""
        /\ \E i \in 2..(Len(links[k].href) - 1) :
              Lower(links[k].href[i]) \in {"breed", "breeds", "dog-breeds"} }

ListingUrl(k) == Absolute(AllLinks(web.listing)[k].href)

FirstOccurrence(url) ==
    CHOOSE k \in NamedBreedLinks :
        /\ ListingUrl(k) = url
        /\ \A m \in NamedBreedLinks : ListingUrl(m) = url => k <= m

\* C23: once the listing page has been read, the candidates are the
\* distinct absolute urls of its named breed links, one entry each, in the
\* order of their first occurrence (the first max_breeds of them); links
\* found by class are candidates only when there is no named breed link.
C23_CandidatesAreDistinctBreedLinks ==
    (scraper.pc # "listing" /\ ~web.listing.raises) =>
        LET c == scraper.candidates
            urls == { ListingUrl(k) : k \in NamedBreedLinks }
        IN  IF urls # {}
            THEN /\ \A k \in 1..Len(c) : c[k].url \in urls
                 /\ \A k, m \in 1..Len(c) :
                       k < m => FirstOccurrence(c[k].url) < FirstOccurrence(c[m].url)
                 /\ Len(c) = IF Cardinality(urls) < max_breeds
                             THEN Cardinality(urls) ELSE max_breeds
                 /\ \A u \in urls :
                       (\A k \in 1..Len(c) : c[k].url # u) =>
                           \A k \in 1..Len(c) :
                               FirstOccurrence(c[k].url) < FirstOccurrence(u)
            ELSE \A k \in 1..Len(c) :
                    \E item \in 1..Len(web.listing.breed_items) :
                        /\ web.listing.breed_items[item] # <<>>
                        /\ web.listing.breed_items[item][1].text # ""
                        /\ c[k].url = Absolute(web.listing.breed_items[item][1].href)

C23_Witness ==
    /\ scraper.pc = "breed"
    /\ Len(AllLinks(web.listing)) = 7
    /\ web.listing.breed_items # <<>>
    /\ Len(scraper.candidates) = 2
    /\ scraper.candidates[1] = [url |-> UrlAkita, name |-> "Akita (Japanese)"]
    /\ scraper.candidates[2].url = UrlBorzoi

\* A click on "Search breeds" with characteristics, or a submitted quiz.
Submitted(o) == o.op \in {"search", "quiz"} /\ o.arg # ""

FailedInitialisation(o) ==
    /\ Submitted(o) \/ o.op = "get_rag_pipeline"
    /\ o.constructed
    /\ o.raised # "none"

\* C24: a run of the app's search or quiz handler, or of the integration
\* script, in which the initialisation of the pipeline raises calls
\* answer_question on nothing and leaves the session without a pipeline,
\* and the submission after it attempts the initialisation again; a search
\* without characteristics neither initialises nor asks.
C24_FailedInitStopsTheRun ==
    [][ /\ FailedInitialisation(last') =>
              /\ last'.answered_by = NoInstance
              /\ last'.answer = NoAnswer
              /\ last'.display.markdown = ""
              /\ heap' = heap
              /\ Submitted(last') =>
                    /\ last'.display.error # ""
                    /\ session_state' = session_state
                    /\ session_state'.rag_pipeline = NoInstance
              /\ last'.op = "get_rag_pipeline" => scraper'.pc = "returned"
        /\ (FailedInitialisation(last) /\ Submitted(last')) => last'.constructed
        /\ (FailedInitialisation(last) /\ last.op = "get_rag_pipeline") =>
              last'.op # "answer_question"
        /\ (last'.op = "search" /\ last'.arg = "") =>
              /\ ~last'.constructed
              /\ last'.answered_by = NoInstance
              /\ last'.answer = NoAnswer
              /\ heap' = heap
              /\ _rag_instance' = _rag_instance
              /\ session_state' = session_state
      ]_vars

C24_Witness ==
    /\ last.op = "quiz"
    /\ FailedInitialisation(last)
    /\ last.pre_session.rag_pipeline = NoInstance
    /\ session_state.rag_pipeline = NoInstance
    /\ last.pre_instance # NoInstance
    /\ last.display.error # ""

\* C25: at the end of a run, every candidate whose page can be fetched and
\* has a title and a main body of more than 100 characters has exactly one
\* Document with its url, whatever the breed pages before it link to.
C25_EveryQualifyingBreedHasOneDocument ==
    (scraper.pc = "done" /\ ~web.listing.raises) =>
        \A k \in 1..Len(scraper.candidates) :
            LET url == scraper.candidates[k].url
                page == Fetch(web, url)
            IN  ( /\ ~page.raises
                  /\ Title(page) # ""
                  /\ Len(ContentText(main_content(page))) > 100 ) =>
                    Cardinality({d \in 1..Len(scraper.documents) :
                                    scraper.documents[d].meta.url = url}) = 1

\* C26: when the threads that called get_rag_pipeline with the same flag,
\* none of them finding an instance cached at the start, have all returned,
\* one DogBreedRAG has been constructed and all of them hold that instance.
C26_ConcurrentCallsConstructOnce ==
    ( /\ \A t \in Threads : threads[t].pc = "done"
      /\ \A t, u \in Threads :
            threads[t].use_scraped_data = threads[u].use_scraped_data ) =>
        /\ Len(heap) = 1
        /\ \A t, u \in Threads : threads[t].returned = threads[u].returned

\* C27: after a get_rag_pipeline or reload_rag_pipeline whose constructor
\* raised, the cached instance and flag are those from before the call and
\* no object was added; if an instance was cached, get_rag_pipeline with
\* the cached flag still returns it without constructing.
C27_FailedConstructionKeepsCache ==
    ( /\ last.op \in {"get_rag_pipeline", "reload_rag_pipeline"}
      /\ last.raised # "none" ) =>
        /\ last.constructed
        /\ _rag_instance = last.pre_instance
        /\ _rag_instance_use_scraped = last.pre_flag
        /\ Len(heap) = last.pre_heap
        /\ last.pre_instance # NoInstance =>
              \A f \in BOOLEAN, ext \in Externals :
                  Flag(f) = last.pre_flag =>
                      /\ ~get_rag_pipeline(f, ext).constructed
                      /\ get_rag_pipeline(f, ext).raised = "none"
                      /\ get_rag_pipeline(f, ext).returned = last.pre_instance

C27_Witness ==
    /\ last.op = "get_rag_pipeline"
    /\ last.raised # "none"
    /\ last.pre_instance # NoInstance
    /\ last.pre_flag = "True"
    /\ last.arg = "False"
    /\ _rag_instance = last.pre_instance

\* C28: the cached flag is None exactly when no instance is cached, and
\* when it is True the cached instance's store was loaded from the data
\* file and is not the built-in dataset.
C28_FlagDescribesCachedData ==
    /\ _rag_instance_use_scraped = None <=> _rag_instance = NoInstance
    /\ _rag_instance_use_scraped = "True" =>
          ~HoldsBuiltInDataset(heap[_rag_instance].document_store)

====
